---- MODULE Spec2Model ----
(***************************************************************************)
(* Release tracker of variantdev/mod (package releasetracker).             *)
(*                                                                         *)
(* A Tracker holds a Spec (VersionsFrom) and three collaborators: a        *)
(* command runner, a content resolver plus file system, and an HTTP        *)
(* getter.  GetProvider selects a provider from the Spec, GetReleases      *)
(* fetches and parses every candidate, Latest picks the greatest release   *)
(* that satisfies a constraint.                                            *)
(*                                                                         *)
(* Strings are sequences of one-character strings, so that splitting,      *)
(* parsing and formatting are computed and not assumed.  The semantic      *)
(* version library is github.com/Masterminds/semver (v1 API, as imported   *)
(* by the tracker); its operations are modelled at the tracker's call      *)
(* sites.                                                                  *)
(***************************************************************************)
EXTENDS Integers, Sequences, FiniteSets, TLC

\* ------------------------------------------------------------------ bounds
\* greatest number of lines of standard output of the command runner
MaxLines == 3
\* greatest number of nodes in a path-query result
MaxNodes == 2
\* greatest number of keys of a map node in a path-query result
MaxKeys == 2

\* --------------------------------------------------------- string helpers
Digits == {"0", "1", "2", "3", "4", "5", "6", "7", "8", "9"}
Letters == {"a", "b", "c", "v", "x", "y"}

DigitVal(c) ==
    CASE c = "0" -> 0 [] c = "1" -> 1 [] c = "2" -> 2 [] c = "3" -> 3
      [] c = "4" -> 4 [] c = "5" -> 5 [] c = "6" -> 6 [] c = "7" -> 7
      [] c = "8" -> 8 [] c = "9" -> 9

\* byte value of a character, for Go's bytewise string comparison
Ord(c) ==
    CASE c \in Digits -> 48 + DigitVal(c)
      [] c = " " -> 32 [] c = "+" -> 43 [] c = "-" -> 45 [] c = "." -> 46
      [] c = "a" -> 97 [] c = "b" -> 98 [] c = "c" -> 99
      [] c = "v" -> 118 [] c = "x" -> 120 [] c = "y" -> 121
      [] OTHER -> 10

\* index of the first character of s that satisfies the test, Len(s)+1 if none
RECURSIVE FirstIn(_, _, _)
FirstIn(s, chars, i) ==
    IF i > Len(s) THEN Len(s) + 1
    ELSE IF s[i] \in chars THEN i
    ELSE FirstIn(s, chars, i + 1)

RECURSIVE FirstNotIn(_, _, _)
FirstNotIn(s, chars, i) ==
    IF i > Len(s) THEN Len(s) + 1
    ELSE IF s[i] \notin chars THEN i
    ELSE FirstNotIn(s, chars, i + 1)

\* strings.Split(s, sep) for a one-character separator
RECURSIVE Split(_, _)
Split(s, sep) ==
    LET k == FirstIn(s, {sep}, 1)
    IN  IF k > Len(s) THEN <<s>>
        ELSE <<SubSeq(s, 1, k - 1)>> \o Split(SubSeq(s, k + 1, Len(s)), sep)

\* strconv.ParseInt(s, 10, 64) of a non-empty run of digits
RECURSIVE ParseInt(_)
ParseInt(s) ==
    IF Len(s) = 0 THEN 0
    ELSE 10 * ParseInt(SubSeq(s, 1, Len(s) - 1)) + DigitVal(s[Len(s)])

\* fmt "%d" of a natural number
RECURSIVE FormatInt(_)
FormatInt(n) ==
    LET d == <<"0", "1", "2", "3", "4", "5", "6", "7", "8", "9">>[(n % 10) + 1]
    IN  IF n < 10 THEN <<d>> ELSE FormatInt(n \div 10) \o <<d>>

\* bytewise comparison of two strings: -1, 0 or 1
RECURSIVE StrCompare(_, _)
StrCompare(s, o) ==
    IF Len(s) = 0 /\ Len(o) = 0 THEN 0
    ELSE IF Len(s) = 0 THEN -1
    ELSE IF Len(o) = 0 THEN 1
    ELSE IF Ord(s[1]) < Ord(o[1]) THEN -1
    ELSE IF Ord(s[1]) > Ord(o[1]) THEN 1
    ELSE StrCompare(Tail(s), Tail(o))

IsNumeric(s) == Len(s) > 0 /\ \A i \in 1..Len(s) : s[i] \in Digits

\* ------------------------------------------------- semver.Version (library)
\* one dot-separated list of identifiers over [0-9A-Za-z-]
ValidIdentifiers(s) ==
    /\ Len(s) > 0
    /\ \A i \in 1..Len(s) : s[i] \in Digits \cup Letters \cup {"-", "."}
    /\ \A p \in 1..Len(Split(s, ".")) : Len(Split(s, ".")[p]) > 0

NoVersion ==
    [valid |-> FALSE, major |-> 0, minor |-> 0, patch |-> 0,
     pre |-> <<>>, metadata |-> <<>>, original |-> <<>>]

\* the zero value of semver.Version ("var latestVer semver.Version")
ZeroVersion ==
    [valid |-> TRUE, major |-> 0, minor |-> 0, patch |-> 0,
     pre |-> <<>>, metadata |-> <<>>, original |-> <<>>]

\* semver.NewVersion: v?NUM(.NUM)?(.NUM)?(-PRE)?(+META)?, anchored
NewVersion(s) ==
    LET body == IF Len(s) > 0 /\ s[1] = "v" THEN Tail(s) ELSE s
        k    == FirstNotIn(body, Digits \cup {"."}, 1)
        core == SubSeq(body, 1, k - 1)
        rest == SubSeq(body, k, Len(body))
        nums == Split(core, ".")
        plus == FirstIn(rest, {"+"}, 1)
        hasPre  == Len(rest) > 0 /\ rest[1] = "-"
        hasMeta == plus <= Len(rest)
        pre  == IF hasPre THEN SubSeq(rest, 2, plus - 1) ELSE <<>>
        meta == IF hasMeta THEN SubSeq(rest, plus + 1, Len(rest)) ELSE <<>>
        coreOk == /\ Len(nums) \in 1..3
                  /\ \A i \in 1..Len(nums) : IsNumeric(nums[i])
        restOk == /\ Len(rest) > 0 => rest[1] \in {"-", "+"}
                  /\ hasPre => ValidIdentifiers(pre)
                  /\ hasMeta => ValidIdentifiers(meta)
                  /\ (~hasPre /\ hasMeta) => plus = 1
    IN  IF coreOk /\ restOk
        THEN [valid |-> TRUE,
              major |-> ParseInt(nums[1]),
              minor |-> IF Len(nums) >= 2 THEN ParseInt(nums[2]) ELSE 0,
              patch |-> IF Len(nums) >= 3 THEN ParseInt(nums[3]) ELSE 0,
              pre |-> pre, metadata |-> meta, original |-> s]
        ELSE NoVersion

\* Version.String: "%d.%d.%d", then "-pre" and "+metadata" when present
String(v) ==
    FormatInt(v.major) \o <<".">> \o FormatInt(v.minor) \o <<".">>
        \o FormatInt(v.patch)
        \o (IF v.pre # <<>> THEN <<"-">> \o v.pre ELSE <<>>)
        \o (IF v.metadata # <<>> THEN <<"+">> \o v.metadata ELSE <<>>)

\* comparePrePart: one pre-release identifier against another
ComparePrePart(s, o) ==
    IF s = o THEN 0
    ELSE IF s = <<>> THEN -1
    ELSE IF o = <<>> THEN 1
    ELSE IF IsNumeric(s) /\ IsNumeric(o)
         THEN (IF ParseInt(s) > ParseInt(o) THEN 1 ELSE -1)
    ELSE IF IsNumeric(s) THEN -1
    ELSE IF IsNumeric(o) THEN 1
    ELSE IF StrCompare(s, o) > 0 THEN 1 ELSE -1

RECURSIVE ComparePreParts(_, _, _)
ComparePreParts(sp, op, i) ==
    IF i > Len(sp) /\ i > Len(op) THEN 0
    ELSE LET d == ComparePrePart(IF i <= Len(sp) THEN sp[i] ELSE <<>>,
                                 IF i <= Len(op) THEN op[i] ELSE <<>>)
         IN  IF d # 0 THEN d ELSE ComparePreParts(sp, op, i + 1)

\* comparePrerelease: a version without a pre-release is the greater one
ComparePrerelease(ps, po) ==
    IF ps = <<>> /\ po = <<>> THEN 0
    ELSE IF ps = <<>> THEN 1
    ELSE IF po = <<>> THEN -1
    ELSE ComparePreParts(Split(ps, "."), Split(po, "."), 1)

CompareInt(a, b) == IF a < b THEN -1 ELSE IF a > b THEN 1 ELSE 0

\* Version.Compare: major, minor, patch, pre-release; metadata is ignored
Compare(v, o) ==
    IF CompareInt(v.major, o.major) # 0 THEN CompareInt(v.major, o.major)
    ELSE IF CompareInt(v.minor, o.minor) # 0 THEN CompareInt(v.minor, o.minor)
    ELSE IF CompareInt(v.patch, o.patch) # 0 THEN CompareInt(v.patch, o.patch)
    ELSE ComparePrerelease(v.pre, o.pre)

LessThan(v, o) == Compare(v, o) < 0


\* ------------------------------------------- semver.Constraints (library)
\* Operands of the modelled constraints are full major.minor.patch versions
\* without wildcards, so a constraint is never "dirty".
ConstraintOps == {<<>>, <<"=">>, <<">">>, <<"<">>, <<">", "=">>, <<"<", "=">>}

NoConstraint == [valid |-> FALSE, op |-> <<>>, con |-> NoVersion]

\* semver.NewConstraint: optional blanks, operator, optional blanks, version
NewConstraint(c) ==
    LET a    == FirstNotIn(c, {" "}, 1)
        b    == FirstNotIn(c, {"=", "!", ">", "<", "~", "^"}, a)
        d    == FirstNotIn(c, {" "}, b)
        op   == SubSeq(c, a, b - 1)
        con  == NewVersion(SubSeq(c, d, Len(c)))
    IN  IF op \in ConstraintOps /\ con.valid
        THEN [valid |-> TRUE, op |-> op, con |-> con]
        ELSE NoConstraint

\* Constraints.Check: a pre-release version is rejected by a constraint
\* whose operand has no pre-release; otherwise the operator decides
Check(cons, v) ==
    IF v.pre # <<>> /\ cons.con.pre = <<>> THEN FALSE
    ELSE CASE cons.op = <<>>         -> Compare(v, cons.con) = 0
           [] cons.op = <<"=">>      -> Compare(v, cons.con) = 0
           [] cons.op = <<">">>      -> Compare(v, cons.con) = 1
           [] cons.op = <<"<">>      -> Compare(v, cons.con) < 0
           [] cons.op = <<">", "=">> -> Compare(v, cons.con) >= 0
           [] cons.op = <<"<", "=">> -> Compare(v, cons.con) <= 0

\* ------------------------------------------------------- sort.Sort (library)
\* sort.Sort on fewer than 12 elements is an insertion sort with
\* Less(i, j) == c[i].LessThan(c[j])
Swap(s, i, j) == [s EXCEPT ![i] = s[j], ![j] = s[i]]

RECURSIVE SiftDown(_, _)
SiftDown(s, j) ==
    IF j > 1 /\ LessThan(s[j], s[j - 1])
    THEN SiftDown(Swap(s, j, j - 1), j - 1)
    ELSE s

RECURSIVE InsertionSort(_, _)
InsertionSort(s, i) ==
    IF i > Len(s) THEN s ELSE InsertionSort(SiftDown(s, i), i + 1)

Sort(s) == InsertionSort(s, 2)

\* ------------------------------------------------------------------ errors
Err(kind, index, str, vers) ==
    [kind |-> kind, index |-> index, str |-> str, vers |-> vers]

\* the nil error
Nil == Err("nil", -1, <<>>, <<>>)

\* ---------------------------------------------------------------- Release
\* type Release struct { Semver; Version; Description }
Release(semver, version, description) ==
    [Semver |-> semver, Version |-> version, Description |-> description]

\* the raw string in place of the formatted version
semverToReleaseOriginal(ver) == Release(ver, ver.original, "")

semverToRelease(ver) == Release(ver, String(ver), "")

\* index (from 1) of the first string that does not parse, 0 if all parse
RECURSIVE FirstUnparsable(_, _)
FirstUnparsable(vs, i) ==
    IF i > Len(vs) THEN 0
    ELSE IF ~NewVersion(vs[i]).valid THEN i
    ELSE FirstUnparsable(vs, i + 1)

\* unparsable candidates skipped instead of failing the extraction
versionStringsToSemversSkipping(vs) ==
    [vss |-> Sort(SelectSeq([i \in 1..Len(vs) |-> NewVersion(vs[i])],
                            LAMBDA v : v.valid)),
     err |-> Nil]

versionStringsToSemvers(vs) ==
    LET bad == FirstUnparsable(vs, 1)
    IN  IF bad # 0
        THEN [vss |-> <<>>, err |-> Err("ParseError", bad - 1, vs[bad], <<>>)]
        ELSE [vss |-> Sort([i \in 1..Len(vs) |-> NewVersion(vs[i])]),
              err |-> Nil]

versionsToReleases(vs) ==
    LET r == versionStringsToSemvers(vs)
    IN  IF r.err # Nil
        THEN [rels |-> <<>>, err |-> r.err]
        ELSE [rels |-> [i \in 1..Len(r.vss) |-> semverToRelease(r.vss[i])],
              err |-> Nil]


\* --------------------------------------------------- extractVersionStrings
\* every order in which Go may range over the keys of a map
RECURSIVE Orders(_)
Orders(keys) ==
    IF keys = {} THEN {<<>>}
    ELSE UNION {{<<k>> \o t : t \in Orders(keys \ {k})} : k \in keys}

\* the loop over raw: a string is taken verbatim, a map gives its keys in
\* the order of the range, anything else ends the extraction with an error
RECURSIVE ExtractNodes(_, _)
ExtractNodes(raw, i) ==
    IF i > Len(raw) THEN {[vs |-> <<>>, err |-> Nil]}
    ELSE IF raw[i].type \notin {"string", "map"}
         THEN {[vs |-> <<>>, err |-> Err("QueryError", i - 1, <<>>, <<>>)]}
    ELSE LET here == IF raw[i].type = "string" THEN {<<raw[i].str>>}
                     ELSE Orders(raw[i].keys)
         IN  {IF t.err # Nil THEN t ELSE [vs |-> h \o t.vs, err |-> Nil] :
                  h \in here, t \in ExtractNodes(raw, i + 1)}

\* got is the outcome of maputil.RecursivelyCastKeysToStrings followed by
\* jsonpath.Get on the decoded document
extractVersionStrings(got) ==
    IF got.kind = "error"
    THEN {[vs |-> <<>>, err |-> Err("QueryError", -1, <<>>, <<>>)]}
    ELSE IF got.kind \notin {"list", "map"}
    THEN {[vs |-> <<>>, err |-> Err("QueryError", -1, <<>>, <<>>)]}
    ELSE LET raw == IF got.kind = "list" THEN got.nodes
                    ELSE <<[type |-> "map", str |-> <<>>, keys |-> got.keys]>>
         IN  IF Len(raw) = 0
             THEN {[vs |-> <<>>, err |-> Err("QueryError", -1, <<>>, <<>>)]}
             ELSE ExtractNodes(raw, 1)

\* -------------------------------------------------------------- providers
\* what one provider call gives back: the releases, the error, the
\* candidates handed to version parsing, the outbound operations performed
\* and whether standard error was logged
Outcome(rels, err, vs, io, logged) ==
    [rels |-> rels, err |-> err, vs |-> vs, io |-> io, logged |-> logged]

extractVersions(got, io) ==
    {IF e.err # Nil
     THEN Outcome(<<>>, e.err, <<>>, io, FALSE)
     ELSE Outcome(versionsToReleases(e.vs).rels, versionsToReleases(e.vs).err,
                  e.vs, io, FALSE) :
        e \in extractVersionStrings(got)}

\* lines of standard output that are not the empty string
RECURSIVE NonEmpty(_)
NonEmpty(entries) ==
    IF entries = <<>> THEN <<>>
    ELSE IF Head(entries) # <<>> THEN <<Head(entries)>> \o NonEmpty(Tail(entries))
    ELSE NonEmpty(Tail(entries))

\* empty lines kept as candidates
execKeepingEmptyLines(cmd, w) ==
    IF w.cmd.err
    THEN [vs |-> <<>>, err |-> Err("FetchError", -1, <<>>, <<>>),
          io |-> <<"exec">>, logged |-> Len(w.cmd.stderr) > 0]
    ELSE [vs |-> Split(w.cmd.stdout, "\n"), err |-> Nil,
          io |-> <<"exec">>, logged |-> Len(w.cmd.stderr) > 0]

\* Tracker.exec: one CaptureStrings call; standard error is only logged
exec(cmd, w) ==
    IF w.cmd.err
    THEN [vs |-> <<>>, err |-> Err("FetchError", -1, <<>>, <<>>),
          io |-> <<"exec">>, logged |-> Len(w.cmd.stderr) > 0]
    ELSE [vs |-> NonEmpty(Split(w.cmd.stdout, "\n")), err |-> Nil,
          io |-> <<"exec">>, logged |-> Len(w.cmd.stderr) > 0]

execAll(cmd, w) ==
    LET e == exec(cmd, w)
    IN  IF e.err # Nil
        THEN {Outcome(<<>>, e.err, <<>>, e.io, e.logged)}
        ELSE {Outcome(versionsToReleases(e.vs).rels,
                      versionsToReleases(e.vs).err, e.vs, e.io, e.logged)}

\* Tracker.getterJsonPath: dep.Resolve, fs.ReadFile, yaml.Unmarshal, query
getterJsonPath(spec, w) ==
    IF w.doc.fail = "fetch"
    THEN {Outcome(<<>>, Err("FetchError", -1, <<>>, <<>>), <<>>,
                  <<"resolve">>, FALSE)}
    ELSE IF w.doc.fail = "read"
    THEN {Outcome(<<>>, Err("FetchError", -1, <<>>, <<>>), <<>>,
                  <<"resolve", "readfile">>, FALSE)}
    ELSE IF w.doc.fail = "decode"
    THEN {Outcome(<<>>, Err("DecodeError", -1, <<>>, <<>>), <<>>,
                  <<"resolve", "readfile">>, FALSE)}
    ELSE extractVersions(w.doc.got, <<"resolve", "readfile">>)

\* Tracker.httpJsonPath: httpGetter.DoRequest, yaml.Unmarshal, query
httpJsonPath(url, jpath, w) ==
    IF w.doc.fail = "fetch"
    THEN {Outcome(<<>>, Err("FetchError", -1, <<>>, <<>>), <<>>,
                  <<"httpget">>, FALSE)}
    ELSE IF w.doc.fail = "decode"
    THEN {Outcome(<<>>, Err("DecodeError", -1, <<>>, <<>>), <<>>,
                  <<"httpget">>, FALSE)}
    ELSE extractVersions(w.doc.got, <<"httpget">>)

\* ------------------------------------------------------------ GetProvider
NoGetter == [Source |-> "", Versions |-> "", Description |-> ""]

Provider(kind, getter, url, jpath, cmd) ==
    [kind |-> kind, spec |-> getter, url |-> url, jsonpath |-> jpath,
     cmd |-> cmd]

NoProvider == Provider("none", NoGetter, <<>>, "", <<>>)

newGetterProvider(getter) == Provider("getter", getter, <<>>, "", <<>>)

newDockerHubImageTagsProvider(d) ==
    Provider("http", NoGetter,
             <<"https://registry.hub.docker.com/v2/repositories/", d.Source,
               "/tags/">>,
             "$.results[*].name", <<>>)

newGitHubReleasesProvider(g) ==
    Provider("http", NoGetter,
             <<"https://", IF g.Host = "" THEN "api.github.com" ELSE g.Host,
               "/repos/", g.Source, "/releases">>,
             "$[*].tag_name", <<>>)

newExecProvider(cmd) == Provider("exec", NoGetter, <<>>, "", cmd)

\* Tracker.GetProvider: the first populated source in the order jsonPath,
\* dockerImageTags, gitTags, githubReleases
GetProvider(versionsFrom) ==
    IF versionsFrom.JSONPath.Source # ""
    THEN [pp |-> newGetterProvider(versionsFrom.JSONPath), err |-> Nil]
    ELSE IF versionsFrom.DockerImageTags.Source # ""
    THEN [pp |-> newDockerHubImageTagsProvider(versionsFrom.DockerImageTags),
          err |-> Nil]
    ELSE IF versionsFrom.GitTags.Source # ""
    THEN [pp |-> newExecProvider(
                     <<"git ls-remote --tags git://",
                       versionsFrom.GitTags.Source,
                       ".git | grep -v { | awk '{ print $2 }' | cut -d'/' -f 3">>),
          err |-> Nil]
    ELSE IF versionsFrom.GitHubReleases.Source # ""
    THEN [pp |-> newGitHubReleasesProvider(versionsFrom.GitHubReleases),
          err |-> Nil]
    ELSE [pp |-> NoProvider, err |-> Err("ConfigError", -1, <<>>, <<>>)]

\* ReleaseProvider.All of the three provider types
All(pp, w) ==
    CASE pp.kind = "exec"   -> execAll(pp.cmd, w)
      [] pp.kind = "getter" -> getterJsonPath(pp.spec, w)
      [] pp.kind = "http"   -> httpJsonPath(pp.url, pp.jsonpath, w)

\* a failed provider call tried a second time
GetReleasesRetrying(versionsFrom, w) ==
    LET g == GetProvider(versionsFrom)
    IN  IF g.err # Nil
        THEN {Outcome(<<>>, g.err, <<>>, <<>>, FALSE)}
        ELSE {IF a.err = Nil THEN a ELSE [b EXCEPT !.io = a.io \o b.io] :
                 a \in All(g.pp, w), b \in All(g.pp, w)}

\* Tracker.GetReleases
GetReleases(versionsFrom, w) ==
    LET g == GetProvider(versionsFrom)
    IN  IF g.err # Nil
        THEN {Outcome(<<>>, g.err, <<>>, <<>>, FALSE)}
        ELSE All(g.pp, w)

\* ----------------------------------------------------------------- Latest
\* the loop over all: the releases that pass the constraint, the running
\* greatest one starting from the zero Version
RECURSIVE Scan(_, _, _, _, _)
Scan(all, cons, i, latestVer, latest) ==
    IF i > Len(all) THEN latest
    ELSE IF ~Check(cons, all[i].Semver)
         THEN Scan(all, cons, i + 1, latestVer, latest)
    ELSE IF LessThan(latestVer, all[i].Semver)
         THEN Scan(all, cons, i + 1, all[i].Semver, <<all[i]>>)
    ELSE Scan(all, cons, i + 1, latestVer, latest)

DefaultConstraint == <<">", " ", "0", ".", "0", ".", "0">>

\* Tracker.Latest; rels holds the returned release, or nothing for nil
Latest(versionsFrom, w, c) ==
    LET constraint == IF c = <<>> THEN DefaultConstraint ELSE c
        cons == NewConstraint(constraint)
    IN  IF ~cons.valid
        THEN {Outcome(<<>>, Err("ConfigError", -1, constraint, <<>>), <<>>,
                      <<>>, FALSE)}
        ELSE {IF a.err # Nil THEN a
              ELSE LET latest == Scan(a.rels, cons, 1, ZeroVersion, <<>>)
                   IN  IF latest = <<>>
                       THEN Outcome(<<>>,
                                Err("NoMatchingVersion", -1, constraint,
                                    [i \in 1..Len(a.rels) |->
                                        String(a.rels[i].Semver)]),
                                a.vs, a.io, a.logged)
                       ELSE Outcome(latest, Nil, a.vs, a.io, a.logged) :
                 a \in GetReleases(versionsFrom, w)}


\* ------------------------------------------------------------------ inputs
V000    == <<"0", ".", "0", ".", "0">>
V000a   == <<"0", ".", "0", ".", "0", "-", "a">>
Vv100   == <<"v", "1", ".", "0", ".", "0">>
V12     == <<"1", ".", "2">>
V100a   == <<"1", ".", "0", ".", "0", "+", "a">>
V100b   == <<"1", ".", "0", ".", "0", "+", "b">>
Vx      == <<"x">>
Blank   == <<" ">>

\* candidate strings a document may hold, lines a command may print, keys
\* a map node may have
NodeStrings == {V000, Vv100, Vx}
LineStrings == {<<>>, Blank, Vv100}
KeyStrings  == {V000a, V100a, V100b, Vx}

\* key sets of the map nodes inside a list result
NodeKeySets == {{}, {V100a, V100b}}

\* constraint arguments of Latest
ConstraintStrings ==
    { <<>>,
      <<">", " ", "1", ".", "0", ".", "0">>,
      <<">", "=", " ", "0", ".", "0", ".", "0">>,
      <<">", "=", "0", ".", "0", ".", "0", "-", "a">>,
      <<"=", " ", "1", ".", "2", ".", "0">>,
      <<"x", "y">> }

RECURSIVE SeqsUpTo(_, _)
SeqsUpTo(S, n) ==
    IF n = 0 THEN {<<>>}
    ELSE SeqsUpTo(S, n - 1)
         \cup {Append(t, x) : t \in {u \in SeqsUpTo(S, n - 1) : Len(u) = n - 1},
                              x \in S}

RECURSIVE Concat(_)
Concat(ss) == IF ss = <<>> THEN <<>> ELSE Head(ss) \o Concat(Tail(ss))

\* standard output: each printed line ends with a newline
Stdouts ==
    {Concat([i \in 1..Len(ls) |-> ls[i] \o <<"\n">>]) :
        ls \in SeqsUpTo(LineStrings, MaxLines)}

Nodes ==
    {[type |-> "string", str |-> x, keys |-> {}] : x \in NodeStrings}
    \cup {[type |-> "map", str |-> <<>>, keys |-> k] : k \in NodeKeySets}
    \cup {[type |-> "number", str |-> <<>>, keys |-> {}]}

Gots ==
    {[kind |-> "list", nodes |-> n, keys |-> {}] : n \in SeqsUpTo(Nodes, MaxNodes)}
    \cup {[kind |-> "map", nodes |-> <<>>, keys |-> k] :
            k \in {q \in SUBSET KeyStrings : Cardinality(q) <= MaxKeys}}
    \cup {[kind |-> "scalar", nodes |-> <<>>, keys |-> {}],
          [kind |-> "error", nodes |-> <<>>, keys |-> {}]}

QuietCmd == [stdout |-> <<>>, stderr |-> <<>>, err |-> FALSE]
QuietDoc == [fail |-> "none", got |-> [kind |-> "error", nodes |-> <<>>, keys |-> {}]]

\* what the command runner answers
CmdWorlds ==
    {[cmd |-> [stdout |-> o, stderr |-> e, err |-> FALSE], doc |-> QuietDoc] :
        o \in Stdouts, e \in {<<>>, <<"x">>}}
    \cup {[cmd |-> [stdout |-> <<>>, stderr |-> e, err |-> TRUE], doc |-> QuietDoc] :
        e \in {<<>>, <<"x">>}}

\* what the content resolver, the file system, the decoder and the HTTP
\* getter answer
DocWorlds ==
    {[cmd |-> QuietCmd, doc |-> [fail |-> "none", got |-> g]] : g \in Gots}
    \cup {[cmd |-> QuietCmd, doc |-> [fail |-> f, got |-> QuietDoc.got]] :
            f \in {"fetch", "read", "decode"}}

SampleWorlds ==
    {[cmd |-> [stdout |-> Vv100 \o <<"\n">>, stderr |-> <<>>, err |-> FALSE],
      doc |-> [fail |-> "none",
               got |-> [kind |-> "list",
                        nodes |-> <<[type |-> "string", str |-> V12, keys |-> {}]>>,
                        keys |-> {}]]]}

Sources(name) == {"", name}

VersionsFroms ==
    {[JSONPath |-> [Source |-> j, Versions |-> "$.versions", Description |-> d],
      GitTags |-> [Source |-> t],
      GitHubReleases |-> [Host |-> h, Source |-> g],
      DockerImageTags |-> [Source |-> k]] :
        j \in Sources("versions.yaml"), d \in {"", "helm releases"},
        t \in Sources("github.com/helm/helm"),
        h \in {"", "ghe.example.com"}, g \in Sources("helm/helm"),
        k \in Sources("library/golang")}

NumPopulated(vf) ==
    Cardinality({n \in {"JSONPath", "GitTags", "GitHubReleases", "DockerImageTags"} :
                    vf[n].Source # ""})

\* ------------------------------------------------------------------- state
VARIABLES
    versionsFrom,   \* Tracker.Spec.VersionsFrom
    site,           \* the answers of the tracker's collaborators
    call            \* the last call on the tracker and what it returned

vars == <<versionsFrom, site, call>>

NoCall ==
    [op |-> "none", cons |-> <<>>, pp |-> NoProvider, rels |-> <<>>,
     err |-> Nil, vs |-> <<>>, io |-> <<>>, logged |-> FALSE]

\* the Tracker as New leaves it: Spec is the configuration handed in
Init ==
    /\ versionsFrom \in VersionsFroms
    /\ site \in CmdWorlds \cup DocWorlds \cup SampleWorlds
    /\ \/ /\ NumPopulated(versionsFrom) = 1
          /\ versionsFrom.JSONPath.Source = "" => versionsFrom.JSONPath.Description = ""
          /\ versionsFrom.GitHubReleases.Source = "" => versionsFrom.GitHubReleases.Host = ""
          /\ site \in (IF versionsFrom.GitTags.Source # "" THEN CmdWorlds ELSE DocWorlds)
          \* the fixed paths of the HTTP providers select with [*]: a list
          /\ versionsFrom.JSONPath.Source = ""
                => site.doc.got.kind \in {"list", "error"}
       \/ /\ NumPopulated(versionsFrom) # 1
          /\ site \in SampleWorlds
    /\ call = NoCall

Returned(op, c, pp, o) ==
    [op |-> op, cons |-> c, pp |-> pp, rels |-> o.rels, err |-> o.err,
     vs |-> o.vs, io |-> o.io, logged |-> o.logged]

CallGetProvider ==
    /\ call' = Returned("GetProvider", <<>>, GetProvider(versionsFrom).pp,
                        Outcome(<<>>, GetProvider(versionsFrom).err, <<>>, <<>>, FALSE))
    /\ UNCHANGED <<versionsFrom, site>>

CallGetReleases ==
    /\ \E o \in GetReleases(versionsFrom, site) :
          call' = Returned("GetReleases", <<>>, GetProvider(versionsFrom).pp, o)
    /\ UNCHANGED <<versionsFrom, site>>

CallLatest ==
    /\ \E c \in ConstraintStrings :
          \E o \in Latest(versionsFrom, site, c) :
              call' = Returned("Latest", c, GetProvider(versionsFrom).pp, o)
    /\ UNCHANGED <<versionsFrom, site>>

Next == CallGetProvider \/ CallGetReleases \/ CallLatest

Spec == Init /\ [][Next]_vars


\* ============================================================== properties
\* the compiled constraint of the last call (the default when none is given)
CallCons ==
    NewConstraint(IF call.cons = <<>> THEN DefaultConstraint ELSE call.cons)

\* the last call fetched and parsed every candidate
Gathered == call.err.kind \in {"nil", "NoMatchingVersion"}

\* the candidates of the last call that satisfy its constraint
Satisfying ==
    {i \in 1..Len(call.vs) : Check(CallCons, NewVersion(call.vs[i]))}

\* C1: when a release satisfies the constraint, Latest returns a release that
\* satisfies it and no satisfying release is strictly greater, over every
\* parseable version, 0.0.0 and its pre-releases included
C1_LatestReturnsGreatestSatisfying ==
    (call.op = "Latest" /\ CallCons.valid /\ Gathered /\ Satisfying # {})
        => /\ call.err = Nil
           /\ Len(call.rels) = 1
           /\ Check(CallCons, call.rels[1].Semver)
           /\ \A i \in Satisfying :
                 ~LessThan(call.rels[1].Semver, NewVersion(call.vs[i]))

\* C2: when every candidate parses and none satisfies the constraint, Latest
\* returns no release and an error listing one version string per candidate;
\* it fails this way only when no release satisfies the constraint
C2_NoMatchOnlyWhenNoneSatisfies ==
    (call.op = "Latest" /\ CallCons.valid)
        => /\ (Gathered /\ Satisfying = {})
                => /\ call.err.kind = "NoMatchingVersion"
                   /\ call.rels = <<>>
                   /\ Len(call.err.vers) = Len(call.vs)
                   /\ \A i \in 1..Len(call.vs) : \E j \in 1..Len(call.err.vers) :
                         call.err.vers[j] = String(NewVersion(call.vs[i]))
           /\ call.err.kind = "NoMatchingVersion" => Satisfying = {}

\* C3: GetProvider returns a provider only when exactly one source is
\* populated; none populated and two or more populated are both errors
C3_ProviderOnlyForExactlyOneSource ==
    call.op = "GetProvider"
        => /\ call.err = Nil => NumPopulated(versionsFrom) = 1
           /\ NumPopulated(versionsFrom) = 0
                => (call.err.kind = "ConfigError" /\ call.pp = NoProvider)
           /\ NumPopulated(versionsFrom) >= 2 => call.err.kind = "ConfigError"

\* the strings held by a path-query result: string nodes and map keys
StringsOf(got) ==
    IF got.kind = "map" THEN got.keys
    ELSE UNION {IF got.nodes[i].type = "string" THEN {got.nodes[i].str}
                ELSE got.nodes[i].keys : i \in 1..Len(got.nodes)}

Unparsable == {i \in 1..Len(call.vs) : ~NewVersion(call.vs[i]).valid}

\* C4: for every provider kind, one candidate that fails to parse makes
\* GetReleases and Latest return an error and no release; the error names
\* the index and the literal string of the first failing candidate, and no
\* candidate of the source is dropped before parsing
C4_FailFastParsing ==
    (call.op \in {"GetReleases", "Latest"} /\ call.pp.kind # "none")
        => /\ Unparsable # {}
                => /\ call.err.kind = "ParseError"
                   /\ call.rels = <<>>
                   /\ \E i \in Unparsable :
                         /\ \A j \in Unparsable : i <= j
                         /\ call.err.index = i - 1
                         /\ call.err.str = call.vs[i]
           /\ call.err.kind = "ParseError" => Unparsable # {}
           /\ (call.pp.kind \in {"getter", "http"} /\ call.vs # <<>>)
                => {call.vs[i] : i \in 1..Len(call.vs)} = StringsOf(site.doc.got)

C4_Witness ==
    /\ call.op = "GetReleases"
    /\ call.pp.kind = "http"
    /\ call.vs = <<Vv100, Vx>>
    /\ call.err = Err("ParseError", 1, Vx, <<>>)
    /\ call.rels = <<>>

\* the path query matched no node
MatchedNothing(got) ==
    got.kind = "error" \/ (got.kind = "list" /\ got.nodes = <<>>)

\* C5: a document-query provider fails when the path query matches no node,
\* and never succeeds with an empty release list
C5_NeverEmptyReleaseList ==
    (call.op = "GetReleases" /\ call.pp.kind \in {"getter", "http"}
        /\ site.doc.fail = "none")
        => /\ MatchedNothing(site.doc.got) => call.err.kind = "QueryError"
           /\ call.err = Nil => call.rels # <<>>

\* the positions of the newlines of s, with both ends
Breaks(s) == {0, Len(s) + 1} \cup {i \in 1..Len(s) : s[i] = "\n"}

\* the non-empty lines of s as (first, last) positions
LineSpans(s) ==
    {<<a + 1, b - 1>> : <<a, b>> \in
        {<<a, b>> \in Breaks(s) \X Breaks(s) :
            /\ a + 1 < b
            /\ \A k \in Breaks(s) : ~(a < k /\ k < b)}}

\* the lines of s that hold something other than white space
NonBlankSpans(s) ==
    {sp \in LineSpans(s) : \E k \in sp[1]..sp[2] : s[k] \notin {" ", "\t", "\r"}}

\* C6: a failed command gives an error and no release; after a successful
\* command, whatever standard error holds, the candidates are the non-blank
\* lines of standard output in order, and there is one release per
\* non-blank line when these all parse
C6_CommandOutputNonBlankLines ==
    (call.op \in {"GetReleases", "Latest"} /\ call.pp.kind = "exec"
        /\ (call.op = "Latest" => CallCons.valid))
        => /\ site.cmd.err
                => (call.err.kind = "FetchError" /\ call.rels = <<>>)
           /\ ~site.cmd.err
                => /\ call.err.kind # "FetchError"
                   /\ Len(call.vs) = Cardinality(NonBlankSpans(site.cmd.stdout))
                   /\ \A i \in 1..Len(call.vs) :
                         \E sp \in NonBlankSpans(site.cmd.stdout) :
                            /\ call.vs[i] = SubSeq(site.cmd.stdout, sp[1], sp[2])
                            /\ Cardinality({t \in NonBlankSpans(site.cmd.stdout) :
                                               t[1] <= sp[1]}) = i
                   /\ (call.op = "GetReleases"
                        /\ \A sp \in NonBlankSpans(site.cmd.stdout) :
                              NewVersion(SubSeq(site.cmd.stdout, sp[1], sp[2])).valid)
                        => /\ call.err = Nil
                           /\ Len(call.rels)
                                 = Cardinality(NonBlankSpans(site.cmd.stdout))

\* C6 as amended: a failed command gives an error and no release; after a successful
\* command, whatever standard error holds, the candidates are the non-empty
\* lines of standard output in order, and when they all parse there is one
\* release per non-empty line
C6_CommandOutputLines ==
    (call.op \in {"GetReleases", "Latest"} /\ call.pp.kind = "exec"
        /\ (call.op = "Latest" => CallCons.valid))
        => /\ site.cmd.err
                => (call.err.kind = "FetchError" /\ call.rels = <<>>)
           /\ ~site.cmd.err
                => /\ call.err.kind # "FetchError"
                   /\ Len(call.vs) = Cardinality(LineSpans(site.cmd.stdout))
                   /\ \A i \in 1..Len(call.vs) :
                         \E sp \in LineSpans(site.cmd.stdout) :
                            /\ call.vs[i] = SubSeq(site.cmd.stdout, sp[1], sp[2])
                            /\ Cardinality({t \in LineSpans(site.cmd.stdout) :
                                               t[1] <= sp[1]}) = i
                   /\ (call.op = "GetReleases" /\ call.err = Nil)
                        => Len(call.rels) = Cardinality(LineSpans(site.cmd.stdout))
                   /\ (call.op = "GetReleases" /\ Unparsable = {})
                        => call.err = Nil

C6_Witness ==
    /\ call.op = "GetReleases"
    /\ call.pp.kind = "exec"
    /\ site.cmd.stdout = Vv100 \o <<"\n", "\n">> \o Vv100 \o <<"\n">>
    /\ site.cmd.stderr # <<>>
    /\ call.logged
    /\ call.err = Nil
    /\ Len(call.rels) = 2

\* two results are equal: the same error, or the same version and the same
\* version string
SameResult(a, b) ==
    /\ a.err = b.err
    /\ Len(a.rels) = Len(b.rels)
    /\ \A i \in 1..Len(a.rels) :
          /\ a.rels[i].Version = b.rels[i].Version
          /\ [a.rels[i].Semver EXCEPT !.original = <<>>]
                = [b.rels[i].Semver EXCEPT !.original = <<>>]

\* C7: Latest called again with the same Spec, the same constraint and the
\* same collaborator data returns an equal result
C7_LatestIdempotent ==
    [][(call.op = "Latest" /\ call'.op = "Latest" /\ call'.cons = call.cons)
          => SameResult(call, call')]_vars

\* C8: every returned Release carries the raw candidate string as the
\* provider produced it
C8_ReleaseCarriesRawString ==
    (call.op \in {"GetReleases", "Latest"} /\ call.err = Nil)
        => \A i \in 1..Len(call.rels) :
              /\ call.rels[i].Version = call.rels[i].Semver.original
              /\ \E j \in 1..Len(call.vs) : call.rels[i].Version = call.vs[j]

\* C8 as amended: every returned Release carries the parsed version of one
\* raw candidate and, as its version string, that version written as
\* major.minor.patch[-pre][+metadata] (no leading v); the raw candidate is
\* kept only as the original of the parsed version
C8_ReleaseCarriesCanonicalString ==
    (call.op \in {"GetReleases", "Latest"} /\ call.err = Nil)
        => /\ call.op = "GetReleases" => Len(call.rels) = Len(call.vs)
           /\ \A i \in 1..Len(call.rels) :
                 /\ \E j \in 1..Len(call.vs) :
                       /\ call.rels[i].Semver = NewVersion(call.vs[j])
                       /\ call.rels[i].Semver.original = call.vs[j]
                 /\ call.rels[i].Version = String(call.rels[i].Semver)
                 /\ call.rels[i].Version[1] \in Digits
                 /\ Compare(NewVersion(call.rels[i].Version),
                            call.rels[i].Semver) = 0

C8_Witness ==
    /\ call.op = "Latest"
    /\ call.err = Nil
    /\ call.rels[1].Semver.original = Vv100
    /\ call.rels[1].Version = <<"1", ".", "0", ".", "0">>

\* C9: with a jsonPath source, every Release of GetReleases carries the
\* declared description, and an empty one when none is declared
C9_ReleasesCarryDescription ==
    (call.op = "GetReleases" /\ call.pp.kind = "getter" /\ call.err = Nil)
        => \A i \in 1..Len(call.rels) :
              call.rels[i].Description = versionsFrom.JSONPath.Description

\* the outbound operations among those a call performed
Outbound(io) == {k \in 1..Len(io) : io[k] \in {"exec", "resolve", "httpget"}}

\* the operations a provider of a kind may perform
OperationsOf(kind) ==
    CASE kind = "exec"   -> {"exec"}
      [] kind = "getter" -> {"resolve", "readfile"}
      [] kind = "http"   -> {"httpget"}
      [] OTHER           -> {}

\* C10: one call performs at most one outbound operation, by the selected
\* provider only; provider selection performs none, and neither does a call
\* that fails at constraint compilation or at provider selection
C10_AtMostOneOutboundOperation ==
    /\ Cardinality(Outbound(call.io)) <= 1
    /\ \A k \in 1..Len(call.io) : call.io[k] \in OperationsOf(call.pp.kind)
    /\ call.op = "GetProvider" => call.io = <<>>
    /\ call.err.kind = "ConfigError" => call.io = <<>>
    /\ (call.op \in {"GetReleases", "Latest"} /\ call.err.kind # "ConfigError")
          => Cardinality(Outbound(call.io)) = 1

C10_Witness ==
    /\ call.op = "Latest"
    /\ call.pp.kind = "getter"
    /\ call.io = <<"resolve", "readfile">>
    /\ call.err = Nil

====
